---- MODULE Spec2Model ----
(***************************************************************************)
(* A model of harvest-profit-pdf's PDFTable (src/src/PDFTable.js) and      *)
(* BasicPDFFooter (src/src/BasicPDFFooter.js).                             *)
(*                                                                         *)
(* JavaScript values are tagged records, so that undefined, null, false,   *)
(* 0 and '' stay distinct and `a || b` is modelled by what it does.        *)
(* Numbers are exact rationals n/d (d > 0, lowest terms).                  *)
(***************************************************************************)
EXTENDS Integers, Sequences, FiniteSets, TLC

----------------------------------------------------------------------------
(* Bounds of the model *)

MaxCols == 2
MaxRows == 3
MaxBreaks == 2
MaxWidthCols == 3
MaxData == 2
MaxEvents == 2

----------------------------------------------------------------------------
(* JavaScript values *)

RECURSIVE Gcd(_, _)
Gcd(a, b) == IF b = 0 THEN a ELSE Gcd(b, a % b)

Abs(a) == IF a < 0 THEN -a ELSE a

Undef == [t |-> "undefined", b |-> FALSE, n |-> 0, d |-> 1, s |-> ""]
Null == [t |-> "null", b |-> FALSE, n |-> 0, d |-> 1, s |-> ""]
Bool(v) == [t |-> "boolean", b |-> v, n |-> 0, d |-> 1, s |-> ""]
Str(v) == [t |-> "string", b |-> FALSE, n |-> 0, d |-> 1, s |-> v]

\* The number a/b (b > 0) in lowest terms.
Num(a, b) ==
  LET g == Gcd(Abs(a), b)
  IN  [t |-> "number", b |-> FALSE, n |-> a \div g, d |-> b \div g, s |-> ""]

Whole(k) == Num(k, 1)

NAdd(x, y) == Num(x.n * y.d + y.n * x.d, x.d * y.d)
NSub(x, y) == Num(x.n * y.d - y.n * x.d, x.d * y.d)
NMul(x, y) == Num(x.n * y.n, x.d * y.d)
\* x / y for y > 0
NDiv(x, y) == Num(x.n * y.d, x.d * y.n)
NLt(x, y) == x.n * y.d < y.n * x.d

\* ToBoolean: what `if (v)` and `v || w` test.
Truthy(v) ==
  CASE v.t = "boolean" -> v.b
    [] v.t = "number" -> v.n # 0
    [] v.t = "string" -> v.s # ""
    [] OTHER -> FALSE

\* a || b
Or(a, b) == IF Truthy(a) THEN a ELSE b

\* v == null (loose): undefined or null
IsNullish(v) == v.t \in {"undefined", "null"}

----------------------------------------------------------------------------
(* PDFTable: constructor *)

OptionNames ==
  {"cellAlign", "cellColor", "cellBorderColor", "cellBorderWidth", "cellFont",
   "cellItalic", "cellFontSize", "headerAlign", "headerColor",
   "headerBorderColor", "headerBorderStyle", "headerBorderWidth", "headerFont",
   "headerItalic", "headerFontSize", "marginsBottom", "cellEmptyColor",
   "cellEmptyFontSize", "cellEmptyItalic", "cellEmptyText", "headerEmptyColor",
   "headerEmptyFontSize", "headerEmptyItalic", "headerEmptyText",
   "headerAllowWrap", "cellAllowWrap"}

\* options = {}
NoOptions == [k \in OptionNames |-> Undef]

\* options.margins || { bottom: 30, ... }, read through .bottom
Margins(options) ==
  IF options.marginsBottom.t = "undefined" THEN Whole(30) ELSE options.marginsBottom

cellBorderColorOption(options) == options.headerColor

headerBorderColorOption(options) == options.headerColor

\* The fields the constructor sets; cellBorderStyle is never assigned.
PDFTable(options) ==
  LET cellFontSize == Or(options.cellFontSize, Whole(14))
      cellItalic == Or(options.cellItalic, Bool(FALSE))
      headerFontSize == Or(options.headerFontSize, Whole(14))
      headerItalic == Or(options.headerItalic, Bool(FALSE))
  IN  [cellAlign |-> Or(options.cellAlign, Str("left")),
       cellColor |-> Or(options.cellColor, Str("#222")),
       cellBorderColor |-> Or(cellBorderColorOption(options), Str("#ccc")),
       cellBorderWidth |-> Or(options.cellBorderWidth, Whole(1)),
       cellFont |-> Or(options.cellFont, Str("Helvetica")),
       cellItalic |-> cellItalic,
       cellFontSize |-> cellFontSize,
       headerAlign |-> Or(options.headerAlign, Str("left")),
       headerColor |-> Or(options.headerColor, Str("#000")),
       headerBorderColor |-> Or(headerBorderColorOption(options), Str("#000")),
       headerBorderStyle |-> Or(options.headerBorderStyle, Str("bottom")),
       headerBorderWidth |-> Or(options.headerBorderWidth, Num(3, 2)),
       headerFont |-> Or(options.headerFont, Str("Helvetica-Bold")),
       headerItalic |-> headerItalic,
       headerFontSize |-> headerFontSize,
       marginsBottom |-> Margins(options),
       cellEmptyColor |-> Or(options.cellEmptyColor, Str("#FFFFFF")),
       cellEmptyFontSize |-> Or(options.cellEmptyFontSize, cellFontSize),
       cellEmptyItalic |-> Or(options.cellEmptyItalic, cellItalic),
       cellEmptyText |-> Or(options.cellEmptyText, Str("none")),
       headerEmptyColor |-> Or(options.headerEmptyColor, Str("#FFFFFF")),
       headerEmptyFontSize |-> Or(options.headerEmptyFontSize, headerFontSize),
       headerEmptyItalic |-> Or(options.headerEmptyItalic, headerItalic),
       headerEmptyText |-> Or(options.headerEmptyText, Str("none")),
       headerAllowWrap |-> Or(options.headerAllowWrap, Bool(FALSE)),
       cellAllowWrap |-> Or(options.cellAllowWrap, Bool(FALSE)),
       cellBorderStyle |-> Undef]

----------------------------------------------------------------------------
(* PDFTable: pure helpers *)

\* A _columnWidth that reads exactly 1 as a fraction (width <= 1).
ColumnWidthBoundaryMutant(nColumns, tableWidth, width) ==
  IF nColumns < 2 THEN tableWidth
  ELSE IF IsNullish(width) THEN NDiv(tableWidth, Whole(nColumns))
  ELSE IF ~NLt(Whole(1), width) THEN NMul(tableWidth, width)
  ELSE width

\* _columnWidth(width), with this.columns.length and this.width() as arguments
_columnWidth(nColumns, tableWidth, width) ==
  IF nColumns < 2 THEN tableWidth
  ELSE IF IsNullish(width) THEN NDiv(tableWidth, Whole(nColumns))
  ELSE IF NLt(width, Whole(1)) THEN NMul(tableWidth, width)
  ELSE width

_headerLineGap(this, header) ==
  NMul(Or(header.fontSize, this.headerFontSize), Num(12, 10))

_rowLineGap(this, row) ==
  NMul(Or(row.fontSize, this.cellFontSize), Num(107, 100))

\* text === undefined || text === null || text.length < 1
IsEmptyText(text) ==
  \/ text.t = "undefined"
  \/ text.t = "null"
  \/ text.t = "string" /\ Len(text.s) < 1

----------------------------------------------------------------------------
(* The drawing surface (PDFKit document and PDFBuilder) *)

\* The surface's own line height for a font size.
LineHeight(fontSize) == fontSize

\* How far doc.text moves doc.y: one line and its gap.
TextAdvance(fontSize, lineGap) == NAdd(LineHeight(fontSize), lineGap)

\* builder.addPageIfNeeded answering true: go to the page after currentPage,
\* adding it when the buffer ends there, and put the cursor at its top.
NextPage(doc, builder, page) ==
  [doc EXCEPT !.page = page + 1,
              !.count = IF page + 1 >= doc.count THEN doc.count + 1 ELSE doc.count,
              !.x = builder.pageLeft,
              !.y = builder.pageTop]

----------------------------------------------------------------------------
(* PDFTable: state *)

VARIABLES
  options,           \* the constructor's options argument
  columns,           \* this.columns
  table,             \* the other fields the constructor sets
  builder,           \* pageLeft(), contentWidth() and the page top
  doc,               \* builder.doc: y, x, the active page, the buffered page count
  currentPage, currentPosition, startingPage, startingPosition, columnWidth,
  pc,                \* where addToPDF is
  i,                 \* addToPDF's loop index (1-based)
  j,                 \* _addColumn's loop index (1-based)
  breaks,            \* how many times addPageIfNeeded has answered true
  trace,             \* the calls made on builder and doc, in order
  footerOptions,     \* BasicPDFFooter: the constructor's options argument
  footer,            \* BasicPDFFooter: the fields of this
  footerDraws,       \* the text calls of the last onPageAdded
  events             \* how many page-added events there have been

tableVars ==
  <<options, columns, table, builder, doc, currentPage, currentPosition,
    startingPage, startingPosition, columnWidth, pc, i, j, breaks, trace>>

footerVars == <<footerOptions, footer, footerDraws, events>>

vars == <<tableVars, footerVars>>

----------------------------------------------------------------------------
(* PDFTable: rendering *)

\* doc.text(text, [x, y,] { lineBreak: false, align, lineGap, width
\*                          [, height: lineGap, ellipsis: true] })
\* after fillColor, font, fontSize and, if italic, the skew transform
TextCall(kind, col, row, page, x, y, color, font, fontSize, italic, skewY, text, align, lineGap, width, allowWrap) ==
  [kind |-> kind, col |-> col, row |-> row, page |-> page, x |-> x, y |-> y,
   color |-> color, font |-> font, fontSize |-> fontSize,
   skew |-> Truthy(italic), skewY |-> skewY, text |-> text, align |-> align,
   lineBreak |-> FALSE, lineGap |-> lineGap, width |-> width,
   height |-> IF Truthy(allowWrap) THEN Undef ELSE lineGap,
   ellipsis |-> ~Truthy(allowWrap)]

\* doc.moveTo(x, y).lineWidth(w).lineTo(x + width, y).strokeColor(c).stroke()
StrokeCall(of, col, row, page, x, y, width, lineWidth, color) ==
  [kind |-> "stroke", of |-> of, col |-> col, row |-> row, page |-> page,
   x |-> x, y |-> y, x2 |-> NAdd(x, width), lineWidth |-> lineWidth,
   color |-> color]

\* _addHeader(column): the surface after it, and the calls it makes
_addHeader(this, d, col, column, position, width) ==
  LET header == column.header
      align == Or(header.align, this.headerAlign)
      borderColor == Or(header.borderColor, this.headerBorderColor)
      borderWidth == Or(header.borderWidth, this.headerBorderWidth)
      color0 == Or(header.color, this.headerColor)
      font == Or(header.font, this.headerFont)
      italic0 == Or(header.italic, this.headerItalic)
      fontSize0 == Or(header.fontSize, this.headerFontSize)
      lineGap == _headerLineGap(this, header)
      emptyColor == Or(header.emptyColor, this.headerEmptyColor)
      emptyFontSize == Or(header.emptyFontSize, this.headerEmptyFontSize)
      emptyItalic == Or(header.emptyItalic, this.headerEmptyItalic)
      emptyText == Or(header.emptyText, this.headerEmptyText)
      allowWrap == Or(header.allowWrap, this.headerAllowWrap)
      empty == IsEmptyText(header.text)
      color == IF empty THEN emptyColor ELSE color0
      fontSize == IF empty THEN emptyFontSize ELSE fontSize0
      italic == IF empty THEN emptyItalic ELSE italic0
      text == IF empty THEN emptyText ELSE header.text
      d1 == [d EXCEPT !.x = position.x,
                      !.y = NAdd(position.y, TextAdvance(fontSize, lineGap))]
  IN  [doc |-> d1,
       calls |->
         << TextCall("header", col, 0, d.page, position.x, position.y, color,
                     font, fontSize, italic, position.y, text, align, lineGap,
                     width, allowWrap),
            StrokeCall("header", col, 0, d.page, d1.x,
                       NSub(d1.y, NMul(fontSize, Num(85, 100))), width,
                       borderWidth, borderColor) >>]

\* An _addRow that moves to the new page without drawing the header again.
RepeatHeaderSkipMutant(this, d, col, column, page, position, width) ==
  [currentPage |-> page + 1,
   currentPosition |-> [position EXCEPT !.y = d.y],
   doc |-> d,
   calls |-> << >>]

\* _addRow, the block under `if (newPage)`: the tracked page and y, and the
\* header drawn again
RepeatHeader(this, d, col, column, page, position, width) ==
  LET position1 == [position EXCEPT !.y = d.y]
      h == _addHeader(this, d, col, column, position1, width)
  IN  [currentPage |-> page + 1,
       currentPosition |-> position1,
       doc |-> h.doc,
       calls |-> h.calls]

\* An _addRow without the early return for borderStyle 'none'.
RowBorderAlwaysMutant(borderStyle, d, col, row, fontSize, width, borderWidth, borderColor) ==
  << StrokeCall("row", col, row, d.page, d.x,
                NSub(d.y, NMul(fontSize, Num(7, 10))), width, borderWidth,
                borderColor) >>

\* _addRow, from `if (borderStyle === 'none') return;` to the stroke
RowBorder(borderStyle, d, col, row, fontSize, width, borderWidth, borderColor) ==
  IF borderStyle.t = "string" /\ borderStyle.s = "none"
  THEN << >>
  ELSE << StrokeCall("row", col, row, d.page, d.x,
                     NSub(d.y, NMul(fontSize, Num(7, 10))), width, borderWidth,
                     borderColor) >>

\* _addRow after the page check: the surface after it, and the calls it makes
DrawRow(this, d, col, rowIndex, row, width) ==
  LET align == Or(row.align, this.cellAlign)
      borderColor == Or(row.borderColor, this.cellBorderColor)
      borderStyle == Or(row.borderStyle, this.cellBorderStyle)
      borderWidth == Or(row.borderWidth, this.cellBorderWidth)
      italic0 == Or(row.italic, this.cellItalic)
      color0 == Or(row.color, this.cellColor)
      font == Or(row.font, this.cellFont)
      fontSize0 == Or(row.fontSize, this.cellFontSize)
      allowWrap == Or(row.allowWrap, this.cellAllowWrap)
      emptyColor == Or(row.emptyColor, this.cellEmptyColor)
      emptyFontSize == Or(row.emptyFontSize, this.cellEmptyFontSize)
      emptyItalic == Or(row.emptyItalic, this.cellEmptyItalic)
      emptyText == Or(row.emptyText, this.cellEmptyText)
      lineGap == _rowLineGap(this, row)
      empty == IsEmptyText(row.text)
      color == IF empty THEN emptyColor ELSE color0
      fontSize == IF empty THEN emptyFontSize ELSE fontSize0
      italic == IF empty THEN emptyItalic ELSE italic0
      text == IF empty THEN emptyText ELSE row.text
      d1 == [d EXCEPT !.y = NAdd(d.y, TextAdvance(fontSize, lineGap))]
  IN  [doc |-> d1,
       calls |->
         << TextCall("row", col, rowIndex, d.page, d.x, d.y, color, font,
                     fontSize, italic, d.y, text, align, lineGap, width,
                     allowWrap) >>
         \o RowBorder(borderStyle, d1, col, rowIndex, fontSize, width,
                      borderWidth, borderColor)]

\* builder.addPageIfNeeded(this.currentPage, pageCount) and its answer, with
\* the tracked page before it and the tracked page and y after the block
\* under `if (newPage)`
PageCheckCall(col, row, newPage, before, after, y) ==
  [kind |-> "pageCheck", col |-> col, row |-> row, newPage |-> newPage,
   before |-> before, after |-> after, y |-> y]

\* addToPDF, up to its loop
addToPDF ==
  /\ pc = "idle"
  /\ currentPage' = doc.count - 1
  /\ currentPosition' = [x |-> builder.pageLeft, y |-> doc.y]
  /\ startingPosition' = [x |-> builder.pageLeft, y |-> doc.y]
  /\ startingPage' = doc.count - 1
  /\ i' = 1
  /\ pc' = "column"
  /\ UNCHANGED <<options, columns, table, builder, doc, columnWidth, j, breaks,
                 trace, footerVars>>

\* A loop body that leaves the tracked page where the last column ended.
ColumnResetKeepPageMutant ==
  [currentPage |-> currentPage,
   y |-> startingPosition.y,
   page |-> currentPage]

\* addToPDF's loop body before _addColumn: the tracked page and y, and the
\* page the surface is switched to
ColumnReset ==
  [currentPage |-> startingPage,
   y |-> startingPosition.y,
   page |-> startingPage]

\* addToPDF's loop body, up to the call of _addColumn
columnStart ==
  /\ pc = "column"
  /\ i <= Len(columns)
  /\ currentPage' = ColumnReset.currentPage
  /\ currentPosition' = [currentPosition EXCEPT !.y = ColumnReset.y]
  /\ doc' = [doc EXCEPT !.page = ColumnReset.page]
  /\ pc' = "addColumn"
  /\ UNCHANGED <<options, columns, table, builder, startingPage,
                 startingPosition, columnWidth, i, j, breaks, trace, footerVars>>

\* _addColumn, up to its loop: the column width and the header
_addColumn ==
  /\ pc = "addColumn"
  /\ LET w == _columnWidth(Len(columns), builder.contentWidth, columns[i].width)
         h == _addHeader(table, doc, i, columns[i], currentPosition, w)
     IN  /\ columnWidth' = w
         /\ doc' = h.doc
         /\ trace' = trace \o h.calls
  /\ j' = 1
  /\ pc' = "rows"
  /\ UNCHANGED <<options, columns, table, builder, currentPage, currentPosition,
                 startingPage, startingPosition, i, breaks, footerVars>>

\* _addRow(column, column.rows[j]), for either answer of addPageIfNeeded
_addRow ==
  /\ pc = "rows"
  /\ j <= Len(columns[i].rows)
  /\ \E newPage \in BOOLEAN :
       /\ newPage => breaks < MaxBreaks
       /\ LET r == IF newPage
                   THEN RepeatHeader(table, NextPage(doc, builder, currentPage),
                                     i, columns[i], currentPage,
                                     currentPosition, columnWidth)
                   ELSE [currentPage |-> currentPage,
                         currentPosition |-> currentPosition,
                         doc |-> doc, calls |-> << >>]
              row == DrawRow(table, r.doc, i, j, columns[i].rows[j], columnWidth)
          IN  /\ currentPage' = r.currentPage
              /\ currentPosition' = r.currentPosition
              /\ doc' = row.doc
              /\ trace' = trace
                           \o << PageCheckCall(i, j, newPage, currentPage,
                                                r.currentPage,
                                                r.currentPosition.y) >>
                           \o r.calls \o row.calls
       /\ breaks' = IF newPage THEN breaks + 1 ELSE breaks
  /\ j' = j + 1
  /\ UNCHANGED <<options, columns, table, builder, startingPage,
                 startingPosition, columnWidth, pc, i, footerVars>>

\* _addColumn after its loop, and addToPDF's i += 1
columnEnd ==
  /\ pc = "rows"
  /\ j > Len(columns[i].rows)
  /\ currentPosition' = [currentPosition EXCEPT !.x = NAdd(@, columnWidth)]
  /\ i' = i + 1
  /\ pc' = "column"
  /\ UNCHANGED <<options, columns, table, builder, doc, currentPage,
                 startingPage, startingPosition, columnWidth, j, breaks, trace,
                 footerVars>>

\* addToPDF after its loop
addToPDFEnd ==
  /\ pc = "column"
  /\ i > Len(columns)
  /\ doc' = [doc EXCEPT !.y = NAdd(@, table.marginsBottom)]
  /\ pc' = "done"
  /\ UNCHANGED <<options, columns, table, builder, currentPage, currentPosition,
                 startingPage, startingPosition, columnWidth, i, j, breaks,
                 trace, footerVars>>

NextTable ==
  \/ addToPDF
  \/ columnStart
  \/ _addColumn
  \/ _addRow
  \/ columnEnd
  \/ addToPDFEnd

----------------------------------------------------------------------------
(* PDFTable: the tables, options and surfaces a render starts from *)

CellFields ==
  {"text", "align", "color", "font", "fontSize", "italic", "borderColor",
   "borderWidth", "borderStyle", "allowWrap", "emptyColor", "emptyFontSize",
   "emptyItalic", "emptyText"}

\* {}
NoCell == [k \in CellFields |-> Undef]

Cell(text) == [NoCell EXCEPT !.text = text]

\* No footer is attached while a table renders.
NoFooter == [attached |-> FALSE]

InitRender(opts, cols, b, d) ==
  /\ options = opts
  /\ columns = cols
  /\ table = PDFTable(opts)
  /\ builder = b
  /\ doc = d
  /\ currentPage = 0
  /\ currentPosition = [x |-> Whole(0), y |-> Whole(0)]
  /\ startingPage = 0
  /\ startingPosition = [x |-> Whole(0), y |-> Whole(0)]
  /\ columnWidth = Whole(0)
  /\ pc = "idle"
  /\ i = 0
  /\ j = 0
  /\ breaks = 0
  /\ trace = << >>
  /\ footerOptions = NoFooter
  /\ footer = NoFooter
  /\ footerDraws = << >>
  /\ events = 0

\* A letter-size page with 72 unit margins.
LetterBuilder ==
  [pageLeft |-> Whole(72), contentWidth |-> Whole(468), pageTop |-> Whole(72)]

\* The surfaces a render starts on: a fresh document, and the second page of
\* a document part of the way down it, with a bottom margin option.
Starts ==
  { [options |-> NoOptions,
     doc |-> [x |-> Whole(72), y |-> Whole(72), page |-> 0, count |-> 1]],
    [options |-> [NoOptions EXCEPT !.marginsBottom = Whole(10)],
     doc |-> [x |-> Whole(72), y |-> Whole(400), page |-> 1, count |-> 2]] }

\* The rows and headers the layouts are made of.
LayoutCells ==
  << Cell(Str("a")),
     [Cell(Str("b")) EXCEPT !.borderStyle = Str("none")],
     [Cell(Str("")) EXCEPT !.borderStyle = Str("bottom"), !.italic = Bool(TRUE)],
     [Cell(Str("d")) EXCEPT !.fontSize = Whole(10), !.borderStyle = Str("")] >>

LayoutHeaders ==
  << Cell(Str("H")), Cell(Undef) >>

LayoutWidths == << Num(1, 4), Undef, Whole(150), Whole(1) >>

\* The table with rowCount[c] rows in column c, its headers, cells and
\* widths taken in turn from the lists above, starting at p.
Layout(rowCount, p) ==
  [c \in DOMAIN rowCount |->
     [header |-> LayoutHeaders[((c + p) % Len(LayoutHeaders)) + 1],
      rows |-> [r \in 1..rowCount[c] |->
                  LayoutCells[((c + r + p) % Len(LayoutCells)) + 1]],
      width |-> LayoutWidths[((c + p) % Len(LayoutWidths)) + 1]]]

InitTable ==
  \E nCols \in 0..MaxCols :
    \E rowCount \in [1..nCols -> 0..MaxRows] :
      \E p \in 0..(Len(LayoutHeaders) - 1) :
        \E start \in Starts :
          InitRender(start.options, Layout(rowCount, p), LetterBuilder, start.doc)

SpecTable == InitTable /\ [][NextTable]_vars

\* Tables of one-row columns whose widths range over the kinds of width.
WidthValues ==
  {Undef, Null, Whole(0), Num(1, 4), Whole(1), Num(3, 2)}

Builders ==
  {LetterBuilder,
   [pageLeft |-> Whole(36), contentWidth |-> Num(1025, 2), pageTop |-> Whole(36)]}

InitWidth ==
  \E nCols \in 0..MaxWidthCols :
    \E width \in [1..nCols -> WidthValues] :
      \E b \in Builders :
        InitRender(NoOptions,
                   [c \in 1..nCols |->
                      [header |-> Cell(Str("H")), rows |-> << Cell(Str("a")) >>,
                       width |-> width[c]]],
                   b,
                   [x |-> b.pageLeft, y |-> b.pageTop, page |-> 0, count |-> 1])

SpecWidth == InitWidth /\ [][NextTable]_vars

----------------------------------------------------------------------------
(* PDFTable: what the trace holds *)

RECURSIVE Sum(_, _)
\* f[1] + ... + f[n]
Sum(f, n) == IF n = 0 THEN Whole(0) ELSE NAdd(Sum(f, n - 1), f[n])

RECURSIVE RowTotal(_)
\* The number of rows in columns 1..n.
RowTotal(n) == IF n = 0 THEN 0 ELSE RowTotal(n - 1) + Len(columns[n].rows)

RECURSIVE Flatten(_, _)
\* f[1] \o ... \o f[n]
Flatten(f, n) == IF n = 0 THEN << >> ELSE Flatten(f, n - 1) \o f[n]

IsText(e) == e.kind \in {"header", "row"}

Calls(kinds) == SelectSeq(trace, LAMBDA e : e.kind \in kinds)

\* The indices of the trace's calls of these kinds.
Indices(kinds) == {k \in 1..Len(trace) : trace[k].kind \in kinds}

\* A call without its arguments.
Shape(e) ==
  IF e.kind = "pageCheck"
  THEN << IF e.newPage THEN "newPage" ELSE "samePage", e.col, e.row >>
  ELSE << e.kind, e.col, e.row >>

\* The answer addPageIfNeeded gave before row r of column c.
Answer(c, r) ==
  \E k \in Indices({"pageCheck"}) :
    trace[k].col = c /\ trace[k].row = r /\ trace[k].newPage

\* The calls column c makes for its first n rows: its header, then for each
\* row the page check, the header again if a page was added, and the row.
ColumnShape(c, n) ==
  << << "header", c, 0 >> >>
  \o Flatten([r \in 1..n |->
                << << IF Answer(c, r) THEN "newPage" ELSE "samePage", c, r >> >>
                \o (IF Answer(c, r) THEN << << "header", c, 0 >> >> ELSE << >>)
                \o << << "row", c, r >> >>], n)

\* How far addToPDF has come: the columns finished, and the rows of column i.
ColumnsDone == IF pc = "idle" THEN 0 ELSE i - 1

RowsDone == IF pc = "rows" THEN j - 1 ELSE 0

ExpectedShape ==
  IF pc = "idle" THEN << >>
  ELSE Flatten([c \in 1..ColumnsDone |->
                  ColumnShape(c, Len(columns[c].rows))], ColumnsDone)
       \o (IF pc = "rows" THEN ColumnShape(i, RowsDone) ELSE << >>)

TraceShape ==
  LET t == Calls({"header", "row", "pageCheck"})
  IN  [k \in 1..Len(t) |-> Shape(t[k])]

\* C1: every column's calls are its header, then its rows once each in
\* order, with the header drawn once more, at the top of the new page and
\* with the tracked page one higher, between a page check that answered true
\* and the row it was made for; there are no other header renders, so a
\* finished table has drawn (columns + page breaks) headers and every row.
C1_HeaderThenRowsInOrder ==
  /\ TraceShape = ExpectedShape
  /\ \A k \in Indices({"pageCheck"}) :
       IF trace[k].newPage
       THEN /\ trace[k].after = trace[k].before + 1
            /\ k < Len(trace)
            /\ trace[k + 1].kind = "header"
            /\ trace[k + 1].col = trace[k].col
            /\ trace[k + 1].y = builder.pageTop
            /\ trace[k + 1].page = trace[k].after
            /\ trace[k].y = builder.pageTop
       ELSE /\ trace[k].after = trace[k].before
            /\ k < Len(trace)
            /\ trace[k + 1].kind = "row"
  /\ pc = "done" =>
       /\ Len(Calls({"header"})) = Len(columns) + breaks
       /\ Len(Calls({"row"})) = RowTotal(Len(columns))

\* Two columns of three rows, one page break before row index 2 of column 0:
\* three header renders and six row renders.
C1_Witness ==
  /\ pc = "done"
  /\ Len(columns) = 2
  /\ \A c \in 1..2 : Len(columns[c].rows) = 3
  /\ breaks = 1
  /\ Answer(1, 3)
  /\ Len(Calls({"header"})) = 3
  /\ Len(Calls({"row"})) = 6

\* The height of column c as drawn: how far its header and rows moved doc.y.
ColumnHeight(c) ==
  LET t == SelectSeq(trace, LAMBDA e : IsText(e) /\ e.col = c)
  IN  Sum([k \in 1..Len(t) |-> TextAdvance(t[k].fontSize, t[k].lineGap)], Len(t))

\* The height of the tallest column; 0 for a table without columns.
TableHeight ==
  IF columns = << >> THEN Whole(0)
  ELSE LET tallest == CHOOSE c \in 1..Len(columns) :
                        \A o \in 1..Len(columns) :
                          ~NLt(ColumnHeight(c), ColumnHeight(o))
       IN  ColumnHeight(tallest)

\* C2: after addToPDF, without a page break, doc.y has advanced from its
\* value at the start by the height of the tallest column plus margins.bottom.
C2_CursorAdvancesByTableHeight ==
  (pc = "done" /\ breaks = 0) =>
    doc.y = NAdd(NAdd(startingPosition.y, TableHeight), table.marginsBottom)

\* The width the specification gives a column declaring `width` in a table of
\* nColumns columns and content width tableWidth.
ReferenceWidth(nColumns, tableWidth, width) ==
  IF nColumns = 1 THEN tableWidth
  ELSE IF IsNullish(width) THEN NDiv(tableWidth, Whole(nColumns))
  ELSE IF ~NLt(width, Whole(0)) /\ NLt(width, Whole(1)) THEN NMul(tableWidth, width)
  ELSE width

\* The width argument of column c's first header render.
ResolvedWidth(c) ==
  LET t == SelectSeq(trace, LAMBDA e : e.kind = "header" /\ e.col = c)
  IN  t[1].width

\* C3: _columnWidth gives a single column the full content width, an unset
\* width an equal share, a width in [0, 1) that fraction of the content width
\* and a width >= 1 itself; the widths of n >= 2 columns that declare none are
\* equal and sum to the content width.
C3_ColumnWidthMatchesReference ==
  /\ pc = "rows" =>
       /\ columnWidth = ReferenceWidth(Len(columns), builder.contentWidth,
                                       columns[i].width)
       /\ ResolvedWidth(i) = columnWidth
  /\ (/\ pc = "done"
      /\ Len(columns) >= 2
      /\ \A c \in 1..Len(columns) : columns[c].width = Undef) =>
       /\ \A c \in 1..Len(columns) : ResolvedWidth(c) = ResolvedWidth(1)
       /\ Sum([c \in 1..Len(columns) |-> ResolvedWidth(c)], Len(columns))
            = builder.contentWidth

\* A rendered table of three columns declaring no width, exactly 1 and 1/4:
\* a third of the content width, 1, and a quarter of the content width.
C3_Witness ==
  /\ pc = "done"
  /\ Len(columns) = 3
  /\ columns[1].width = Undef
  /\ columns[2].width = Whole(1)
  /\ columns[3].width = Num(1, 4)
  /\ ResolvedWidth(1) = NDiv(builder.contentWidth, Whole(3))
  /\ ResolvedWidth(2) = Whole(1)
  /\ ResolvedWidth(3) = NDiv(builder.contentWidth, Whole(4))

\* The row strokes made for row r of column c.
RowStrokes(c, r) ==
  {k \in Indices({"stroke"}) :
     trace[k].of = "row" /\ trace[k].col = c /\ trace[k].row = r}

\* C7: a row whose borderStyle is exactly 'none' gets no stroke; any other
\* row, its borderStyle unset included, gets exactly one, right after its
\* text and spanning the column width.
C7_RowBorderUnlessNone ==
  \A k \in Indices({"row"}) :
    LET c == trace[k].col
        r == trace[k].row
    IN  IF columns[c].rows[r].borderStyle = Str("none")
        THEN RowStrokes(c, r) = {}
        ELSE /\ RowStrokes(c, r) = {k + 1}
             /\ trace[k + 1].x2 = NAdd(trace[k + 1].x, trace[k].width)
             /\ trace[k].width =
                  _columnWidth(Len(columns), builder.contentWidth, columns[c].width)

\* A column has drawn a row with borderStyle 'none' and a row without a
\* borderStyle, in that order: no stroke, then one.
C7_Witness ==
  \E k \in Indices({"row"}) :
    /\ columns[trace[k].col].rows[trace[k].row].borderStyle = Str("none")
    /\ k < Len(trace)
    /\ \E m \in Indices({"row"}) :
         /\ m > k
         /\ columns[trace[m].col].rows[trace[m].row].borderStyle = Undef
         /\ RowStrokes(trace[m].col, trace[m].row) = {m + 1}

\* The x a column starts at: the left edge plus the widths before it.
ColumnLeft(c) ==
  NAdd(builder.pageLeft,
       Sum([o \in 1..(c - 1) |->
              _columnWidth(Len(columns), builder.contentWidth, columns[o].width)],
           c - 1))

ColumnStartsAtOrigin ==
  pc = "addColumn" =>
    /\ currentPage = startingPage
    /\ doc.page = startingPage
    /\ currentPosition.y = startingPosition.y
    /\ currentPosition.x = ColumnLeft(i)

\* C10: when a column starts, whatever pages the columns before it went
\* through, the tracked page and the surface's active page are startingPage,
\* the tracked y is the starting y and the tracked x is the left edge plus the
\* widths of the columns before it; startingPage and startingPosition do not
\* change once the render has set them.
C10_ColumnsStartAtOrigin ==
  /\ []ColumnStartsAtOrigin
  /\ [][pc # "idle" => UNCHANGED <<startingPage, startingPosition>>]_vars

\* The second column starts after the first went onto a new page.
C10_Witness ==
  /\ pc = "addColumn"
  /\ i = 2
  /\ breaks >= 1
  /\ doc.count > startingPage + 1
  /\ currentPosition.x # builder.pageLeft

----------------------------------------------------------------------------
(* PDFTable: styling *)

StyleTexts == {Undef, Null, Str(""), Str("x")}

\* A cell's own styling: none, the values a cell sets to switch a table-wide
\* style off (false, 0), or a full set of overrides.
CellStyles ==
  { NoCell,
    [NoCell EXCEPT !.italic = Bool(FALSE), !.allowWrap = Bool(FALSE),
                   !.fontSize = Whole(0), !.borderWidth = Whole(0)],
    [NoCell EXCEPT !.align = Str("center"), !.color = Str("#c01"),
                   !.font = Str("Courier"), !.fontSize = Whole(10),
                   !.italic = Bool(TRUE), !.borderColor = Str("#c02"),
                   !.borderWidth = Whole(2), !.allowWrap = Bool(TRUE)] }

\* A cell's own empty-variant styling, likewise.
EmptyStyles ==
  { NoCell,
    [NoCell EXCEPT !.emptyItalic = Bool(FALSE), !.emptyFontSize = Whole(0)],
    [NoCell EXCEPT !.emptyColor = Str("#c03"), !.emptyFontSize = Whole(8),
                   !.emptyItalic = Bool(TRUE), !.emptyText = Str("-")] }

BorderStyles == {Undef, Str("none"), Str("bottom")}

StyledCell(text, style, emptyStyle, borderStyle) ==
  [k \in CellFields |->
     CASE k = "text" -> text
       [] k = "borderStyle" -> borderStyle
       [] k \in {"emptyColor", "emptyFontSize", "emptyItalic", "emptyText"} ->
            emptyStyle[k]
       [] OTHER -> style[k]]

\* The constructor's options: none, every option given, and the options that
\* switch a default off.
StyleOptions ==
  { NoOptions,
    [cellAlign |-> Str("right"), cellColor |-> Str("#t01"),
     cellBorderColor |-> Str("#t02"), cellBorderWidth |-> Whole(3),
     cellFont |-> Str("Times-Roman"), cellItalic |-> Bool(TRUE),
     cellFontSize |-> Whole(12), headerAlign |-> Str("center"),
     headerColor |-> Str("#t03"), headerBorderColor |-> Str("#t04"),
     headerBorderStyle |-> Str("bottom"), headerBorderWidth |-> Whole(4),
     headerFont |-> Str("Times-Bold"), headerItalic |-> Bool(TRUE),
     headerFontSize |-> Whole(18), marginsBottom |-> Whole(10),
     cellEmptyColor |-> Str("#t05"), cellEmptyFontSize |-> Whole(9),
     cellEmptyItalic |-> Bool(TRUE), cellEmptyText |-> Str("n/a"),
     headerEmptyColor |-> Str("#t06"), headerEmptyFontSize |-> Whole(11),
     headerEmptyItalic |-> Bool(TRUE), headerEmptyText |-> Str("?"),
     headerAllowWrap |-> Bool(TRUE), cellAllowWrap |-> Bool(TRUE)],
    [NoOptions EXCEPT !.cellItalic = Bool(FALSE), !.headerItalic = Bool(FALSE),
                      !.cellAllowWrap = Bool(FALSE),
                      !.headerAllowWrap = Bool(FALSE),
                      !.cellEmptyItalic = Bool(FALSE),
                      !.headerEmptyItalic = Bool(FALSE)] }

\* A table of one column with one row, under each styling of its header, of
\* its row and of the table.
InitStyle ==
  \E opts \in StyleOptions :
    \E ht \in StyleTexts, hs \in CellStyles, he \in EmptyStyles :
      \E rt \in StyleTexts, rs \in CellStyles, re \in EmptyStyles,
         rb \in BorderStyles :
        InitRender(opts,
                   << [header |-> StyledCell(ht, hs, he, Undef),
                       rows |-> << StyledCell(rt, rs, re, rb) >>,
                       width |-> Undef] >>,
                   LetterBuilder,
                   [x |-> Whole(72), y |-> Whole(72), page |-> 0, count |-> 1])

SpecStyle == InitStyle /\ [][NextTable]_vars

\* The cell spec a text call was made for, and the table-wide defaults and
\* line gap factor of its kind.
CellOf(e) ==
  IF e.kind = "header" THEN columns[e.col].header
  ELSE columns[e.col].rows[e.row]

Defaults(e) ==
  IF e.kind = "header"
  THEN [color |-> table.headerColor, fontSize |-> table.headerFontSize,
        italic |-> table.headerItalic, emptyColor |-> table.headerEmptyColor,
        emptyFontSize |-> table.headerEmptyFontSize,
        emptyItalic |-> table.headerEmptyItalic,
        emptyText |-> table.headerEmptyText, gap |-> Num(12, 10)]
  ELSE [color |-> table.cellColor, fontSize |-> table.cellFontSize,
        italic |-> table.cellItalic, emptyColor |-> table.cellEmptyColor,
        emptyFontSize |-> table.cellEmptyFontSize,
        emptyItalic |-> table.cellEmptyItalic,
        emptyText |-> table.cellEmptyText, gap |-> Num(107, 100)]

\* The cell's own value if it sets one, else the fallback.
OwnOr(own, fallback) == IF own # Undef THEN own ELSE fallback

\* C4: a header or row whose text is undefined, null or of length 0 is drawn
\* with the empty-variant colour, font size, italic flag and text (the cell's
\* own if it sets them, else the table's); one with text never is.
C4_EmptyTextUsesEmptyVariant ==
  \A k \in Indices({"header", "row"}) :
    LET e == trace[k]
        cell == CellOf(e)
        dflt == Defaults(e)
    IN  IF IsEmptyText(cell.text)
        THEN /\ e.color = OwnOr(cell.emptyColor, dflt.emptyColor)
             /\ e.fontSize = OwnOr(cell.emptyFontSize, dflt.emptyFontSize)
             /\ e.skew = Truthy(OwnOr(cell.emptyItalic, dflt.emptyItalic))
             /\ e.text = OwnOr(cell.emptyText, dflt.emptyText)
        ELSE /\ e.color = Or(cell.color, dflt.color)
             /\ e.fontSize = Or(cell.fontSize, dflt.fontSize)
             /\ e.skew = Truthy(Or(cell.italic, dflt.italic))
             /\ e.text = cell.text

\* C5: the lineGap of every header text call is 1.2 times, and of every row
\* text call 1.07 times, the font size set for that call.
C5_LineGapFollowsFontSize ==
  \A k \in Indices({"header", "row"}) :
    trace[k].lineGap = NMul(trace[k].fontSize, Defaults(trace[k]).gap)

\* The cell's own value if it sets one, else the option if it was given, else
\* the hardcoded default.
Cascade(own, option, hard) ==
  IF own # Undef THEN own ELSE IF option # Undef THEN option ELSE hard

\* The stroke that follows text call k, if there is one.
StrokeAfter(k) ==
  IF k < Len(trace) /\ trace[k + 1].kind = "stroke" THEN {trace[k + 1]} ELSE {}

\* C6: every styling attribute of a header or row with text is resolved to
\* the cell's own value if the cell sets it, else to the table option if
\* given, else to the hardcoded default.
C6_OwnValueThenOptionThenDefault ==
  \A k \in Indices({"header", "row"}) :
    LET e == trace[k]
        cell == CellOf(e)
        h == e.kind = "header"
    IN  ~IsEmptyText(cell.text) =>
          /\ e.align = Cascade(cell.align,
                               IF h THEN options.headerAlign ELSE options.cellAlign,
                               Str("left"))
          /\ e.color = Cascade(cell.color,
                               IF h THEN options.headerColor ELSE options.cellColor,
                               IF h THEN Str("#000") ELSE Str("#222"))
          /\ e.font = Cascade(cell.font,
                              IF h THEN options.headerFont ELSE options.cellFont,
                              IF h THEN Str("Helvetica-Bold") ELSE Str("Helvetica"))
          /\ e.fontSize = Cascade(cell.fontSize,
                                  IF h THEN options.headerFontSize
                                  ELSE options.cellFontSize,
                                  Whole(14))
          /\ e.skew = Truthy(Cascade(cell.italic,
                                     IF h THEN options.headerItalic
                                     ELSE options.cellItalic,
                                     Bool(FALSE)))
          /\ e.ellipsis = ~Truthy(Cascade(cell.allowWrap,
                                          IF h THEN options.headerAllowWrap
                                          ELSE options.cellAllowWrap,
                                          Bool(FALSE)))
          /\ \A st \in StrokeAfter(k) :
               /\ st.color = Cascade(cell.borderColor,
                                     IF h THEN options.headerBorderColor
                                     ELSE options.cellBorderColor,
                                     IF h THEN Str("#000") ELSE Str("#ccc"))
               /\ st.lineWidth = Cascade(cell.borderWidth,
                                         IF h THEN options.headerBorderWidth
                                         ELSE options.cellBorderWidth,
                                         IF h THEN Num(3, 2) ELSE Whole(1))

----------------------------------------------------------------------------
(* BasicPDFFooter *)

\* An entry of options.data: a string, or an object with a label and a value.
Line(text) == [t |-> "string", s |-> text, label |-> Undef, value |-> Undef]

Pair(label, value) == [t |-> "object", s |-> "", label |-> label, value |-> value]

Digit(k) ==
  CASE k = 0 -> "0" [] k = 1 -> "1" [] k = 2 -> "2" [] k = 3 -> "3"
    [] k = 4 -> "4" [] k = 5 -> "5" [] k = 6 -> "6" [] k = 7 -> "7"
    [] k = 8 -> "8" [] k = 9 -> "9"

RECURSIVE NatToString(_)
\* `${n}` of a natural number
NatToString(n) ==
  IF n < 10 THEN Digit(n) ELSE NatToString(n \div 10) \o Digit(n % 10)

\* The string doc.text draws for a string or a natural number.
Drawn(text) == IF text.t = "number" THEN NatToString(text.n) ELSE text.s

\* The width of a string at the footer's font size.
WidthOfString(text) == Whole(5 * Len(text))

\* A constructor that reads includePagination by its truthiness.
PaginationIfTruthyMutant(option) == Truthy(option)

\* constructor: pagination is off only for includePagination === false
IncludePagination(option) ==
  ~(option.t # "undefined" /\ option.t # "null" /\ option = Bool(FALSE))

\* constructor: options.data || [], wrapped in an array if it is not one
FooterData(data) ==
  IF data.t = "undefined" THEN << >>
  ELSE IF data.t = "array" THEN data.items
  ELSE << data >>

BasicPDFFooter(opts) ==
  [includePagination |-> IncludePagination(opts.includePagination),
   currentPage |->
     IF IncludePagination(opts.includePagination) THEN Whole(1) ELSE Undef,
   data |-> FooterData(opts.data),
   docTitle |-> Undef, width |-> Undef, height |-> Undef, pdfBuilder |-> Undef]

\* doc.text(text, x, y, options), under the font and font size set before it
FooterText(by, entry, text, font, x, y, lineBreak, align, width) ==
  [by |-> by, entry |-> entry, text |-> text, font |-> font,
   fontSize |-> Whole(9),
   x |-> x, y |-> y, lineBreak |-> lineBreak, align |-> align, width |-> width]

\* An addFooterData that starts one line too high.
LineHeightFromLengthMutant(data) == Len(data)

\* addFooterData: let lineHeight = this.data.length - 1
FirstLineHeight(data) == Len(data) - 1

RECURSIVE FooterLines(_, _, _, _)
\* addFooterData's loop from entry k on, lineHeight lines above the base
FooterLines(this, margins, k, lineHeight) ==
  IF k > Len(this.data) THEN << >>
  ELSE
    LET entry == this.data[k]
        y == NSub(NAdd(this.height, margins.bottom),
                  NMul(Whole(lineHeight), Whole(9)))
    IN  IF entry.t = "string"
        THEN << FooterText("addFooterData", k, Str(entry.s), "Helvetica",
                           margins.left, y, TRUE, "left", Undef) >>
             \o FooterLines(this, margins, k + 1, lineHeight - 1)
        ELSE IF /\ entry.t = "object"
                /\ entry.value.t # "undefined"
                /\ entry.label.t # "undefined"
        THEN << FooterText("addFooterData", k, Str(Drawn(entry.label) \o ":"),
                           "Helvetica-Bold", margins.left, y, FALSE, "left", Undef),
                FooterText("addFooterData", k, entry.value, "Helvetica",
                           NAdd(margins.left,
                                WidthOfString(Drawn(entry.label) \o ":")),
                           y, TRUE, "left", Undef) >>
             \o FooterLines(this, margins, k + 1, lineHeight - 1)
        ELSE FooterLines(this, margins, k + 1, lineHeight)

addFooterData(this) ==
  FooterLines(this, this.pdfBuilder.margins, 1, FirstLineHeight(this.data))

\* addPagination: the text it draws
PaginationText(pageNumber, docTitle) ==
  IF Len(docTitle.s) > 0
  THEN Str(docTitle.s \o " - " \o Drawn(pageNumber))
  ELSE pageNumber

addPagination(this) ==
  << FooterText("addPagination", 0,
                PaginationText(this.currentPage, this.docTitle), "Helvetica",
                this.pdfBuilder.margins.left,
                NAdd(this.height, this.pdfBuilder.margins.bottom), TRUE, "right",
                this.width) >>

\* The builders a page-added event hands over.
PageSizes ==
  {[width |-> Whole(612), height |-> Whole(792)],
   [width |-> Whole(842), height |-> Whole(595)]}

MarginSets ==
  {[top |-> Whole(72), bottom |-> Whole(72), left |-> Whole(72), right |-> Whole(72)],
   [top |-> Whole(40), bottom |-> Whole(60), left |-> Whole(30), right |-> Whole(50)]}

PageNumbers == {Whole(1), Whole(3), Whole(12)}

Titles == {Str(""), Str("Report")}

\* onPageAdded(pdfBuilder)
onPageAdded ==
  /\ footer # NoFooter
  /\ events < MaxEvents
  /\ \E page \in PageSizes, margins \in MarginSets, currentPageNow \in PageNumbers,
        title \in Titles :
       LET pdfBuilder == [page |-> page, margins |-> margins,
                          currentPage |-> currentPageNow, title |-> title]
           this == [footer EXCEPT
                      !.width = NSub(NSub(page.width, margins.left), margins.right),
                      !.height = NSub(NSub(page.height, margins.top), margins.bottom),
                      !.currentPage = pdfBuilder.currentPage,
                      !.docTitle = pdfBuilder.title,
                      !.pdfBuilder = pdfBuilder]
       IN  /\ footer' = this
           /\ footerDraws' =
                addFooterData(this)
                \o (IF this.includePagination THEN addPagination(this) ELSE << >>)
  /\ events' = events + 1
  /\ UNCHANGED <<tableVars, footerOptions>>

NextFooter == onPageAdded

\* The entries footer data is made of: a line, a label with its value, a
\* second line, and an object without a value.
Entries ==
  {Line("Generated 2024-01-01"), Pair(Str("Total"), Str("42")), Line("b"),
   Pair(Str("Only"), Undef)}

RECURSIVE SeqsUpTo(_, _)
\* The sequences over S of length at most n.
SeqsUpTo(S, n) ==
  IF n = 0 THEN {<< >>}
  ELSE LET shorter == SeqsUpTo(S, n - 1)
       IN  shorter \cup {Append(q, x) : q \in shorter, x \in S}

DataOptions ==
  {Undef, Line("alone")}
  \cup {[t |-> "array", items |-> q] : q \in SeqsUpTo(Entries, MaxData)}

PaginationOptions == {Undef, Null, Bool(FALSE), Bool(TRUE), Whole(0), Str("")}

InitFooter ==
  /\ \E ip \in PaginationOptions, data \in DataOptions :
       /\ footerOptions = [includePagination |-> ip, data |-> data]
       /\ footer = BasicPDFFooter([includePagination |-> ip, data |-> data])
  /\ footerDraws = << >>
  /\ events = 0
  /\ options = NoOptions
  /\ columns = << >>
  /\ table = PDFTable(NoOptions)
  /\ builder = LetterBuilder
  /\ doc = [x |-> Whole(72), y |-> Whole(72), page |-> 0, count |-> 1]
  /\ currentPage = 0
  /\ currentPosition = [x |-> Whole(0), y |-> Whole(0)]
  /\ startingPage = 0
  /\ startingPosition = [x |-> Whole(0), y |-> Whole(0)]
  /\ columnWidth = Whole(0)
  /\ pc = "off"
  /\ i = 0
  /\ j = 0
  /\ breaks = 0
  /\ trace = << >>

SpecFooter == InitFooter /\ [][NextFooter]_vars

----------------------------------------------------------------------------
(* Both components *)

Init == InitTable \/ InitWidth \/ InitStyle \/ InitFooter

Next == NextTable \/ NextFooter

Spec == Init /\ [][Next]_vars

----------------------------------------------------------------------------
(* BasicPDFFooter: what the calls hold *)

Pagination == SelectSeq(footerDraws, LAMBDA e : e.by = "addPagination")

\* C8: a footer constructed with includePagination false draws no pagination
\* text; any other footer draws exactly one on every page-added event, after
\* the data lines and right-aligned in the content width: "{title} - {page}"
\* with a title and "{page}" without, for the page handed over in that event.
C8_PaginationText ==
  events > 0 =>
    LET b == footer.pdfBuilder
    IN  IF footerOptions.includePagination = Bool(FALSE)
        THEN Pagination = << >>
        ELSE /\ Len(Pagination) = 1
             /\ footerDraws[Len(footerDraws)] = Pagination[1]
             /\ Pagination[1].align = "right"
             /\ Pagination[1].width =
                  NSub(NSub(b.page.width, b.margins.left), b.margins.right)
             /\ Drawn(Pagination[1].text) =
                  IF b.title.s # ""
                  THEN b.title.s \o " - " \o NatToString(b.currentPage.n)
                  ELSE NatToString(b.currentPage.n)

\* A footer constructed with includePagination 0 has, on its second event,
\* drawn "12" for page 12 of an untitled document after two data entries.
C8_Witness ==
  /\ events = 2
  /\ footerOptions.includePagination = Whole(0)
  /\ footer.pdfBuilder.title = Str("")
  /\ footer.pdfBuilder.currentPage = Whole(12)
  /\ Len(footerDraws) = 3
  /\ Drawn(footerDraws[3].text) = "12"

ValidEntry(entry) ==
  \/ entry.t = "string"
  \/ entry.t = "object" /\ entry.label # Undef /\ entry.value # Undef

\* The calls made for entry k of the data.
EntryCalls(k) == SelectSeq(footerDraws, LAMBDA e : e.by = "addFooterData" /\ e.entry = k)

DataCalls == SelectSeq(footerDraws, LAMBDA e : e.by = "addFooterData")

\* C9: with n entries, each a string or a label with its value, entry i (from
\* 0) is drawn at y = base - (n - 1 - i) * 9, base = content height +
\* margins.bottom: in order, 9 apart, the last one at base, where the
\* pagination line is too.
C9_FooterLinesStackUpFromBase ==
  (events > 0 /\ \A k \in 1..Len(footer.data) : ValidEntry(footer.data[k])) =>
    LET b == footer.pdfBuilder
        n == Len(footer.data)
        base == NAdd(NSub(NSub(b.page.height, b.margins.top), b.margins.bottom),
                     b.margins.bottom)
    IN  /\ \A k \in 1..n :
             /\ Len(EntryCalls(k)) = IF footer.data[k].t = "string" THEN 1 ELSE 2
             /\ \A m \in 1..Len(EntryCalls(k)) :
                  EntryCalls(k)[m].y = NSub(base, Whole((n - k) * 9))
             /\ Drawn(EntryCalls(k)[1].text) =
                  IF footer.data[k].t = "string" THEN footer.data[k].s
                  ELSE footer.data[k].label.s \o ":"
        /\ \A m \in 1..(Len(DataCalls) - 1) : DataCalls[m].entry <= DataCalls[m + 1].entry
        /\ \A m \in 1..Len(Pagination) : Pagination[m].y = base

\* data = ["Generated 2024-01-01", {label: "Total", value: "42"}] on page 3 of
\* "Report": the line 9 above the base, "Total:" and "42" at the base, then
\* "Report - 3" at the base.
C9_Witness ==
  /\ events = 1
  /\ footer.data = << Line("Generated 2024-01-01"), Pair(Str("Total"), Str("42")) >>
  /\ Len(footerDraws) = 4
  /\ footerDraws[1].y = NSub(footerDraws[2].y, Whole(9))
  /\ Drawn(footerDraws[2].text) = "Total:"
  /\ footerDraws[3].y = footerDraws[2].y
  /\ Drawn(footerDraws[4].text) = "Report - 3"
  /\ footerDraws[4].y = footerDraws[2].y

====
